---------------------------- MODULE Spec2Model ----------------------------
(***************************************************************************)
(* RelayQueryTransform.traverse (src/query/RelayQueryTransform.js) as a    *)
(* state machine.  A rewrite is a run of visit(root, state): visit routes  *)
(* to the handler of the node, the handler (by default) calls traverse,    *)
(* and traverse calls visit on every child.  Nodes and child arrays live   *)
(* in a heap so that reference identity, allocation and in-place mutation  *)
(* of arrays are observable.  Up to two rewrites run over the same input   *)
(* tree; each step below is one step of one rewrite.                       *)
(***************************************************************************)
EXTENDS Integers, Sequences, FiniteSets, TLC

\* ---------------------------------------------------------------- bounds
MaxNodes == 4
MaxEdits == 2
ParNodes == 2

\* ------------------------------------------------------------- constants
NULL == 0
NoRet == 0 - 1
Procs == {1, 2}
States == {0, 1}
\* what a handler does with its node: "default" returns traverse(node, state),
\* "replace" returns a newly built node, "dropIf" returns null when the state
\* is 1 and traverse(node, state) otherwise
Kinds == {"default", "replace", "dropIf"}

VARIABLES
    nIn,          \* number of nodes of the input tree (node ids 1..nIn)
    input,        \* the input tree as the caller built it (never assigned again)
    nodes,        \* heap of nodes: id -> [sub, kids, meta, by]
    arrays,       \* heap of child arrays: id -> sequence of node ids
    plan,         \* plan[p][n]: what the handler of rewrite p does for node n
    state0,       \* state0[p]: the state value rewrite p starts with
    active,       \* the rewrites that run
    status,       \* status[p]: "idle", "running" or "done"
    stack,        \* stack[p]: the call stack of rewrite p
    ret,          \* ret[p]: value just returned to the frame on top
    result,       \* result[p]: what visit(root, state) returned
    nextChildren, \* the local `nextChildren` of every traverse call
    log           \* log[p]: the calls and returns of rewrite p, in order

vars == <<nIn, input, nodes, arrays, plan, state0, active, status, stack,
          ret, result, nextChildren, log>>

\* ------------------------------------------------------------ input trees
RECURSIVE SeqOfSet(_)
SeqOfSet(S) ==
    IF S = {} THEN <<>>
    ELSE LET m == CHOOSE x \in S : \A y \in S : x <= y
         IN  <<m>> \o SeqOfSet(S \ {m})

RECURSIVE Ancestors(_, _)
Ancestors(f, j) == IF f[j] = 0 THEN {} ELSE {f[j]} \cup Ancestors(f, f[j])

\* the ordered trees of n nodes, numbered in document order (parent before
\* child, a child's subtree before its next sibling)
ParentFns(n) ==
    {f \in [1..n -> 0..n] :
        /\ f[1] = 0
        /\ \A i \in 2..n : f[i] \in 1..(i - 1)
        /\ \A i \in 2..n : f[i] \in {i - 1} \cup Ancestors(f, i - 1)}

ChildSeq(par, n, i) == SeqOfSet({j \in 1..n : par[j] = i})

\* a node with children can have subselections; a childless one may or may not
SubFlags(par, n) ==
    {sb \in [1..n -> BOOLEAN] :
        \A i \in 1..n : (\E j \in 1..n : par[j] = i) => sb[i]}

Plans(n, k) ==
    {pl \in [1..n -> Kinds] :
        Cardinality({i \in 1..n : pl[i] # "default"}) <= k}

DefaultPlan(n) == [i \in 1..n |-> "default"]

\* the default handlers, or those with the handler of one node overridden
OneOverride(n) ==
    {[DefaultPlan(n) EXCEPT ![i] = k] : i \in 1..n, k \in Kinds}

InitHeap(par, sb, n) ==
    /\ nIn = n
    /\ nodes = [i \in 1..n |-> [sub |-> sb[i], kids |-> i, meta |-> i, by |-> "input"]]
    /\ arrays = [i \in 1..n |-> ChildSeq(par, n, i)]
    /\ input = [parent |-> par, sub |-> sb,
                children |-> [i \in 1..n |-> ChildSeq(par, n, i)]]

StackMax == 2 * MaxNodes
Cells == Procs \X (1..MaxNodes)

InitControl ==
    /\ status = [p \in Procs |-> "idle"]
    /\ stack = [p \in Procs |-> <<>>]
    /\ ret = [p \in Procs |-> NoRet]
    /\ result = [p \in Procs |-> NULL]
    /\ nextChildren = [c \in Cells |-> 0]
    /\ log = [p \in Procs |-> <<>>]

\* one rewrite over any tree of up to MaxNodes nodes, up to MaxEdits
\* handlers overridden
Init ==
    /\ \E n \in 1..MaxNodes : \E par \in ParentFns(n) : \E sb \in SubFlags(par, n) :
       \E pl \in Plans(n, MaxEdits) : \E s \in States :
          /\ InitHeap(par, sb, n)
          /\ plan = [p \in Procs |-> IF p = 1 THEN pl ELSE DefaultPlan(n)]
          /\ state0 = [p \in Procs |-> IF p = 1 THEN s ELSE 0]
    /\ active = {1}
    /\ InitControl

\* two rewrites over the same tree of up to ParNodes nodes, each with its own
\* state value and its own handlers (one handler overridden at most)
ParInit ==
    /\ \E n \in 1..ParNodes : \E par \in ParentFns(n) : \E sb \in SubFlags(par, n) :
       \E pl1 \in OneOverride(n) : \E pl2 \in OneOverride(n) : \E s \in States :
          /\ InitHeap(par, sb, n)
          /\ plan = [p \in Procs |-> IF p = 1 THEN pl1 ELSE pl2]
          /\ state0 = [p \in Procs |-> IF p = 1 THEN s ELSE 1 - s]
    /\ active = Procs
    /\ InitControl

\* ---------------------------------------------------------------- frames
Frame(op, node, st, pc) ==
    [op |-> op, node |-> node, state |-> st, pc |-> pc, index |-> 0, children |-> 0]

Top(p) == stack[p][Len(stack[p])]
Depth(p) == Len(stack[p])
Pop(s) == SubSeq(s, 1, Len(s) - 1)
SetTop(s, f) == [s EXCEPT ![Len(s)] = f]
Event(ev, node, val) == [ev |-> ev, node |-> node, val |-> val]

\* ------------------------------------------------ the code of traverse
\* bugs the code could have had (each replaces the definition after it)
IsLeaf_Never(node) == FALSE
IsLeaf_Always(node) == TRUE

\* line 68: if (!node.canHaveSubselections()) return node;
IsLeaf(node) == ~ nodes[node].sub

Cell_Shared(p, d) == <<1, d \div 2>>

\* line 71: let nextChildren;  -- a fresh local of the call at depth d of rewrite p
Cell(p, d) == <<p, d \div 2>>

Differs_Always(nextChild, prevChild) == TRUE

\* line 75: if (nextChild !== prevChild)
Differs(nextChild, prevChild) == nextChild # prevChild

Slice_Alias(children, index) == [id |-> children, arrays |-> arrays]

Slice_OffByOne(children, index) ==
    [id |-> Len(arrays) + 1,
     arrays |-> Append(arrays, SubSeq(arrays[children], 1, index + 1))]

\* line 76: children.slice(0, index) -- a new array holding children[0..index-1]
Slice(children, index) ==
    [id |-> Len(arrays) + 1,
     arrays |-> Append(arrays, SubSeq(arrays[children], 1, index))]

ShouldPush_Always(nc, nextChild) == nc # 0

\* line 78: if (nextChildren && nextChild)
ShouldPush(nc, nextChild) == nc # 0 /\ nextChild # NULL

TraverseOutcome_NullUntouched(nc) ==
    IF nc # 0 /\ Len(arrays[nc]) > 0 THEN "clone" ELSE "null"

TraverseOutcome_NoEmptyCheck(nc) == IF nc # 0 THEN "clone" ELSE "same"

TraverseOutcome_NoClone(nc) ==
    IF nc # 0 /\ Len(arrays[nc]) = 0 THEN "null" ELSE "same"

\* lines 82-88: what traverse returns once the children were processed
TraverseOutcome(nc) ==
    IF nc # 0
    THEN IF Len(arrays[nc]) = 0 THEN "null" ELSE "clone"
    ELSE "same"

\* ------------------------------------------------------------- actions
\* the caller invokes visit(root, state)
Begin(p) ==
    /\ status[p] = "idle"
    /\ status' = [status EXCEPT ![p] = "running"]
    /\ stack' = [stack EXCEPT ![p] = <<Frame("visit", 1, state0[p], "call")>>]
    /\ log' = [log EXCEPT ![p] = Append(@, Event("visit", 1, state0[p]))]
    /\ UNCHANGED <<nIn, input, nodes, arrays, plan, state0, active, ret, result, nextChildren>>

InVisit(p) ==
    /\ status[p] = "running"
    /\ Depth(p) > 0
    /\ Top(p).op = "visit"
    /\ Top(p).pc = "call"

HandlerOf(p, node) == IF node \in 1..nIn THEN plan[p][node] ELSE "default"

Return(p, ev, node, val) ==
    /\ stack' = [stack EXCEPT ![p] = Pop(@)]
    /\ ret' = [ret EXCEPT ![p] = val]
    /\ log' = [log EXCEPT ![p] = Append(@, Event(ev, node, val))]

\* handler: return traverse(node, state)   (the default handler)
HandlerTraverse(p) ==
    /\ InVisit(p)
    /\ LET f == Top(p)
           k == HandlerOf(p, f.node)
       IN  /\ \/ k = "default"
              \/ k = "dropIf" /\ f.state = 0
           /\ Depth(p) + 1 <= StackMax
           /\ stack' = [stack EXCEPT ![p] =
                  Append(SetTop(@, [f EXCEPT !.pc = "wait"]),
                         Frame("traverse", f.node, f.state, "enter"))]
           /\ log' = [log EXCEPT ![p] = Append(@, Event("traverse", f.node, f.state))]
    /\ UNCHANGED <<nIn, input, nodes, arrays, plan, state0, active, status, ret,
                   result, nextChildren>>

\* handler: return null without traversing (the state says so)
HandlerDrop(p) ==
    /\ InVisit(p)
    /\ LET f == Top(p)
           k == HandlerOf(p, f.node)
       IN  /\ k = "dropIf"
           /\ f.state = 1
           /\ Return(p, "vret", f.node, NULL)
    /\ UNCHANGED <<nIn, input, nodes, arrays, plan, state0, active, status,
                   result, nextChildren>>

\* handler: return a newly constructed node in place of the node
HandlerReplace(p) ==
    /\ InVisit(p)
    /\ LET f == Top(p)
           new == Len(nodes) + 1
       IN  /\ HandlerOf(p, f.node) = "replace"
           /\ nodes' = Append(nodes, [sub |-> FALSE, kids |-> Len(arrays) + 1,
                                      meta |-> f.node, by |-> "handler"])
           /\ arrays' = Append(arrays, <<>>)
           /\ Return(p, "vret", f.node, new)
    /\ UNCHANGED <<nIn, input, plan, state0, active, status, result, nextChildren>>

\* visit returns what the handler's call of traverse returned
VisitReturn(p) ==
    /\ status[p] = "running"
    /\ Depth(p) > 0
    /\ Top(p).op = "visit"
    /\ Top(p).pc = "wait"
    /\ ret[p] # NoRet
    /\ Return(p, "vret", Top(p).node, ret[p])
    /\ UNCHANGED <<nIn, input, nodes, arrays, plan, state0, active, status,
                   result, nextChildren>>

InTraverse(p, pc) ==
    /\ status[p] = "running"
    /\ Depth(p) > 0
    /\ Top(p).op = "traverse"
    /\ Top(p).pc = pc

\* lines 68-70
TraverseLeaf(p) ==
    /\ InTraverse(p, "enter")
    /\ IsLeaf(Top(p).node)
    /\ Return(p, "tret", Top(p).node, Top(p).node)
    /\ UNCHANGED <<nIn, input, nodes, arrays, plan, state0, active, status,
                   result, nextChildren>>

\* lines 71-72: declare nextChildren, call traverseChildren
TraverseBegin(p) ==
    /\ InTraverse(p, "enter")
    /\ ~ IsLeaf(Top(p).node)
    /\ LET f == Top(p)
       IN  /\ stack' = [stack EXCEPT ![p] =
                  SetTop(@, [f EXCEPT !.pc = "loop", !.index = 0,
                                      !.children = nodes[f.node].kids])]
           /\ nextChildren' = [nextChildren EXCEPT ![Cell(p, Depth(p))] = 0]
           /\ log' = [log EXCEPT ![p] = Append(@, Event("children", f.node, 0))]
    /\ UNCHANGED <<nIn, input, nodes, arrays, plan, state0, active, status, ret, result>>

\* traverseChildren calls the callback for the next child; lines 73-74
ChildCall(p) ==
    /\ InTraverse(p, "loop")
    /\ LET f == Top(p)
       IN  /\ f.index < Len(arrays[f.children])
           /\ Depth(p) + 1 <= StackMax
           /\ LET prevChild == arrays[f.children][f.index + 1]
              IN  /\ stack' = [stack EXCEPT ![p] =
                         Append(SetTop(@, [f EXCEPT !.pc = "back"]),
                                Frame("visit", prevChild, f.state, "call"))]
                  /\ log' = [log EXCEPT ![p] = Append(@, Event("visit", prevChild, f.state))]
    /\ ret' = [ret EXCEPT ![p] = NoRet]
    /\ UNCHANGED <<nIn, input, nodes, arrays, plan, state0, active, status,
                   result, nextChildren>>

\* lines 75-80, with the result of visit(prevChild, nextState)
ChildBack(p) ==
    /\ InTraverse(p, "back")
    /\ ret[p] # NoRet
    /\ LET f == Top(p)
           c == Cell(p, Depth(p))
           nextChild == ret[p]
           prevChild == arrays[f.children][f.index + 1]
           start == Differs(nextChild, prevChild) /\ nextChildren[c] = 0
           sl == Slice(f.children, f.index)
           nc == IF start THEN sl.id ELSE nextChildren[c]
           arrays1 == IF start THEN sl.arrays ELSE arrays
       IN  /\ nextChildren' = [nextChildren EXCEPT ![c] = nc]
           /\ arrays' = IF ShouldPush(nc, nextChild)
                        THEN [arrays1 EXCEPT ![nc] = Append(@, nextChild)]
                        ELSE arrays1
           /\ stack' = [stack EXCEPT ![p] =
                  SetTop(@, [f EXCEPT !.pc = "loop", !.index = f.index + 1])]
           /\ log' = [log EXCEPT ![p] = Append(@, Event("back", f.node, nextChild))]
    /\ ret' = [ret EXCEPT ![p] = NoRet]
    /\ UNCHANGED <<nIn, input, nodes, plan, state0, active, status, result>>

AtLoopEnd(p) ==
    /\ InTraverse(p, "loop")
    /\ Top(p).index >= Len(arrays[Top(p).children])

\* lines 82-85: return null
TraverseNull(p) ==
    /\ AtLoopEnd(p)
    /\ TraverseOutcome(nextChildren[Cell(p, Depth(p))]) = "null"
    /\ Return(p, "tret", Top(p).node, NULL)
    /\ nextChildren' = [nextChildren EXCEPT ![Cell(p, Depth(p))] = 0]
    /\ UNCHANGED <<nIn, input, nodes, arrays, plan, state0, active, status, result>>

\* line 86: return node.clone(nextChildren)
TraverseClone(p) ==
    /\ AtLoopEnd(p)
    /\ TraverseOutcome(nextChildren[Cell(p, Depth(p))]) = "clone"
    /\ LET f == Top(p)
           new == Len(nodes) + 1
       IN  /\ nodes' = Append(nodes, [sub |-> nodes[f.node].sub,
                                      kids |-> nextChildren[Cell(p, Depth(p))],
                                      meta |-> nodes[f.node].meta, by |-> "clone"])
           /\ stack' = [stack EXCEPT ![p] = Pop(@)]
           /\ ret' = [ret EXCEPT ![p] = new]
           /\ log' = [log EXCEPT ![p] =
                  Append(Append(@, Event("clone", f.node, new)), Event("tret", f.node, new))]
    /\ nextChildren' = [nextChildren EXCEPT ![Cell(p, Depth(p))] = 0]
    /\ UNCHANGED <<nIn, input, arrays, plan, state0, active, status, result>>

\* line 88: return node
TraverseSame(p) ==
    /\ AtLoopEnd(p)
    /\ TraverseOutcome(nextChildren[Cell(p, Depth(p))]) = "same"
    /\ Return(p, "tret", Top(p).node, Top(p).node)
    /\ nextChildren' = [nextChildren EXCEPT ![Cell(p, Depth(p))] = 0]
    /\ UNCHANGED <<nIn, input, nodes, arrays, plan, state0, active, status, result>>

\* visit(root, state) has returned to the caller
Finish(p) ==
    /\ status[p] = "running"
    /\ Depth(p) = 0
    /\ ret[p] # NoRet
    /\ status' = [status EXCEPT ![p] = "done"]
    /\ result' = [result EXCEPT ![p] = ret[p]]
    /\ ret' = [ret EXCEPT ![p] = NoRet]
    /\ log' = [log EXCEPT ![p] = Append(@, Event("finish", 1, ret[p]))]
    /\ UNCHANGED <<nIn, input, nodes, arrays, plan, state0, active, stack,
                   nextChildren>>

Next ==
    \/ \E p \in active : Begin(p)
    \/ \E p \in active : HandlerTraverse(p)
    \/ \E p \in active : HandlerDrop(p)
    \/ \E p \in active : HandlerReplace(p)
    \/ \E p \in active : VisitReturn(p)
    \/ \E p \in active : TraverseLeaf(p)
    \/ \E p \in active : TraverseBegin(p)
    \/ \E p \in active : ChildCall(p)
    \/ \E p \in active : ChildBack(p)
    \/ \E p \in active : TraverseNull(p)
    \/ \E p \in active : TraverseClone(p)
    \/ \E p \in active : TraverseSame(p)
    \/ \E p \in active : Finish(p)

Spec == Init /\ [][Next]_vars
ParSpec == ParInit /\ [][Next]_vars

\* ------------------------------------------------- reading the history
InputNodes == 1..nIn
OrigChildren(n) == input.children[n]
OrigSub(n) == input.sub[n]
IsDone(p) == status[p] = "done"

\* positions in the log of rewrite p of the events ev about node n
Events(p, ev, n) ==
    {i \in 1..Len(log[p]) : log[p][i].ev = ev /\ log[p][i].node = n}

\* the values returned by the completed visit / traverse calls on node n
VisitResults(p, n) == {log[p][i].val : i \in Events(p, "vret", n)}
TraverseResults(p, n) == {log[p][i].val : i \in Events(p, "tret", n)}

\* the latest step of rewrite p was the event ev
Last(p) == log[p][Len(log[p])]
Just(p, ev) == Len(log[p]) > 0 /\ Last(p).ev = ev

\* the handler of node n returns what traverse(n, state) returns
ReturnsTraverse(p, n) ==
    \/ plan[p][n] = "default"
    \/ plan[p][n] = "dropIf" /\ state0[p] = 0

\* every handler of rewrite p calls traverse once on its node and returns
\* the result: the no-op transform
TraversingPlan(p) == \A n \in InputNodes : ReturnsTraverse(p, n)

\* the nodes allocated since the rewrites started
NewNodes == (nIn + 1)..Len(nodes)
ClonedFrom(n) == {c \in NewNodes : nodes[c].by = "clone" /\ nodes[c].meta = n}

\* ----------------------------------------------------------------- C1
\* C1: identity preservation.  When every handler returns its input node
\* unchanged (each returns traverse(node, state)), clone is never called and no node or array is allocated, every
\* traverse call returns the node it was given, and visit(root, state)
\* returns root itself.
C1_IdentityPreservation ==
    \A p \in active :
        TraversingPlan(p) =>
            /\ Len(nodes) = nIn
            /\ Len(arrays) = nIn
            /\ Just(p, "tret") => Last(p).val = Last(p).node
            /\ IsDone(p) => result[p] = 1

C1_Witness ==
    /\ IsDone(1)
    /\ nIn = MaxNodes
    /\ \A n \in InputNodes : plan[1][n] = "default"
    /\ state0[1] = 1
    /\ OrigChildren(1) = <<2, 3>>
    /\ TraverseResults(1, 1) = {1}
    /\ result[1] = 1

\* ----------------------------------------------------------------- C5
\* C5: leaf invariance.  For a node that cannot have subselections, traverse
\* returns the node itself, whatever the state; no step of traverseChildren
\* or of its callback is ever taken for it, and it is never cloned.
C5_LeafInvariance ==
    /\ \A p \in active :
          (Len(log[p]) > 0 /\ ~ nodes[Last(p).node].sub) =>
              /\ Last(p).ev \notin {"children", "back", "clone"}
              /\ Last(p).ev = "tret" => Last(p).val = Last(p).node
    /\ \A c \in NewNodes : nodes[c].by = "clone" => nodes[nodes[c].meta].sub

C5_Witness ==
    /\ Just(1, "tret")
    /\ state0[1] = 1
    /\ Last(1).node > 1
    /\ ~ nodes[Last(1).node].sub
    /\ Last(1).val = Last(1).node

\* ---------------------------------------------------------------- C10
\* C10: a node that can have subselections but has no children is kept:
\* traverse returns the node itself (neither null nor a clone); traverse
\* returns null only for a node that had at least one child.
C10_ChildlessKept ==
    \A p \in active :
        Just(p, "tret") =>
            LET n == Last(p).node
            IN  /\ (OrigSub(n) /\ OrigChildren(n) = <<>>) => Last(p).val = n
                /\ Last(p).val = NULL => Len(OrigChildren(n)) >= 1

C10_Witness ==
    /\ Just(1, "tret")
    /\ state0[1] = 1
    /\ Last(1).node > 1
    /\ OrigSub(Last(1).node)
    /\ OrigChildren(Last(1).node) = <<>>
    /\ Events(1, "children", Last(1).node) # {}
    /\ Last(1).val = Last(1).node

\* ----------------------------------------------------------------- C6
\* C6: input immutability.  In every state of a rewrite, every input node
\* still has the child array it started with, holding the same references in
\* the same order; the accumulator nextChildren is never an input node's
\* array.
C6_InputImmutable ==
    /\ \A n \in InputNodes :
          /\ nodes[n] = [sub |-> OrigSub(n), kids |-> n, meta |-> n, by |-> "input"]
          /\ arrays[n] = OrigChildren(n)
    /\ \A c \in Cells : nextChildren[c] \notin InputNodes

C6_Witness ==
    /\ IsDone(1)
    /\ nIn = MaxNodes
    /\ result[1] \in ClonedFrom(1)
    /\ Len(OrigChildren(1)) = 3
    /\ Len(arrays[nodes[result[1]].kids]) = 2
    /\ arrays[1] = <<2, 3, 4>>

\* ----------------------------------------------------------------- C2
\* the result of the visit of child c (NoRet while it has not returned)
Res(p, c) ==
    IF VisitResults(p, c) = {} THEN NoRet
    ELSE CHOOSE v \in VisitResults(p, c) : TRUE
Present(seq) == LET Kept(v) == v # NULL IN SelectSeq(seq, Kept)
ChildResults(p, n) == [i \in 1..Len(OrigChildren(n)) |-> Res(p, OrigChildren(n)[i])]

\* C2: partial deletion and order preservation.  When traverse of a node
\* that can have children returns, every child was visited once; if at
\* least one child's result differs from the child and at least one result
\* is present, traverse returns a new node made by clone whose child
\* sequence is exactly the present visit results in the order of their
\* original positions.
C2_PartialDeletionOrder ==
    \A p \in active :
        (Just(p, "tret") /\ OrigSub(Last(p).node)) =>
            LET n == Last(p).node
                kids == OrigChildren(n)
                r == Last(p).val
            IN  /\ \A j \in 1..Len(kids) : Cardinality(VisitResults(p, kids[j])) = 1
                /\ ( /\ \E j \in 1..Len(kids) : Res(p, kids[j]) # kids[j]
                     /\ \E j \in 1..Len(kids) : Res(p, kids[j]) # NULL )
                   => /\ r \in ClonedFrom(n)
                      /\ arrays[nodes[r].kids] = Present(ChildResults(p, n))

\* children [A, B, C] with only B deleted: a new root with children [A, C]
C2_Witness ==
    /\ IsDone(1)
    /\ OrigChildren(1) = <<2, 3, 4>>
    /\ ChildResults(1, 1) = <<2, NULL, 4>>
    /\ result[1] \in ClonedFrom(1)
    /\ arrays[nodes[result[1]].kids] = <<2, 4>>

\* ----------------------------------------------------------------- C3
\* C3: total deletion cascades upward.  When the visit of every child of a
\* node with at least one child returns null, traverse of the node returns
\* null; no clone ever has an empty child sequence; and when a visit returns
\* null below a chain of single-child ancestors whose handlers return
\* traverse's result, visit(root, state) returns null.
C3_TotalDeletionCascades ==
    /\ \A p \in active :
          Just(p, "tret") =>
              LET kids == OrigChildren(Last(p).node)
              IN  ( /\ Len(kids) >= 1
                    /\ \A j \in 1..Len(kids) : VisitResults(p, kids[j]) = {NULL} )
                  => Last(p).val = NULL
    /\ \A c \in NewNodes : nodes[c].by = "clone" => Len(arrays[nodes[c].kids]) >= 1
    /\ \A p \in active :
          IsDone(p) =>
              \A x \in InputNodes :
                  ( /\ NULL \in VisitResults(p, x)
                    /\ \A a \in Ancestors(input.parent, x) :
                          Len(OrigChildren(a)) = 1 /\ ReturnsTraverse(p, a) )
                  => result[p] = NULL

C3_Witness ==
    /\ IsDone(1)
    /\ nIn >= 3
    /\ OrigChildren(1) = <<2>>
    /\ OrigChildren(2) = <<3>>
    /\ plan[1][3] = "dropIf"
    /\ VisitResults(1, 3) = {NULL}
    /\ TraverseResults(1, 2) = {NULL}
    /\ TraverseResults(1, 1) = {NULL}
    /\ result[1] = NULL

\* ----------------------------------------------------------------- C7
RECURSIVE Reach(_)
Reach(r) ==
    IF r \notin 1..Len(nodes) \/ nodes[r].kids \notin 1..Len(arrays) THEN {}
    ELSE {r} \cup UNION {Reach(arrays[nodes[r].kids][i]) :
                            i \in 1..Len(arrays[nodes[r].kids])}

\* the nodes of the output tree of rewrite p
OutNodes(p) == IF IsDone(p) THEN Reach(result[p]) ELSE {}

\* the input nodes whose visit returned something else than the node
Changed(p) ==
    {n \in InputNodes : VisitResults(p, n) # {} /\ VisitResults(p, n) # {n}}

\* C7: changed-path invariant of the output tree.  No input node appears in
\* the output above a changed node: an ancestor of a changed node is never
\* part of the output, an input node of the output has only input nodes
\* below it, and every node of the output above a new node is a clone.
C7_ChangedPath ==
    \A p \in active :
        IsDone(p) =>
            /\ \A n \in Changed(p) : \A a \in Ancestors(input.parent, n) :
                  a \notin OutNodes(p)
            /\ \A m \in OutNodes(p) :
                  /\ m \in InputNodes => Reach(m) \subseteq InputNodes
                  /\ Reach(m) \ {m} # {} /\ ~ (Reach(m) \subseteq InputNodes)
                        => m \in NewNodes /\ nodes[m].by = "clone"

C7_Witness ==
    /\ IsDone(1)
    /\ result[1] \in ClonedFrom(1)
    /\ \E n \in Changed(1) :
          /\ input.parent[n] > 1
          /\ Res(1, n) # NULL
          /\ \E c \in ClonedFrom(input.parent[n]) :
                /\ c \in OutNodes(1)
                /\ Res(1, n) \in Reach(c)
    /\ \E m \in OutNodes(1) : m \in InputNodes

\* ----------------------------------------------------------------- C4
DepthOf(x) == Cardinality(Ancestors(input.parent, x))
PathTo(x) == Ancestors(input.parent, x) \cup {x}

\* the handler of x alone changes its node (replaces it, or deletes it);
\* every other handler returns traverse's result
SingleChange(p, x) ==
    /\ \/ plan[p][x] = "replace"
       \/ plan[p][x] = "dropIf" /\ state0[p] = 1
    /\ \A n \in InputNodes \ {x} : plan[p][n] = "default"

\* the number of ancestors directly above x that have no other child
RECURSIVE Cascade(_)
Cascade(x) ==
    IF input.parent[x] = 0 THEN 0
    ELSE IF Len(OrigChildren(input.parent[x])) = 1
         THEN 1 + Cascade(input.parent[x])
         ELSE 0

\* every clone is the clone of an ancestor of x and shares, by reference and
\* in order, every child of that ancestor that is not on the path to x
SharesSiblings(x) ==
    \A c \in NewNodes :
        nodes[c].by = "clone" =>
            LET a == nodes[c].meta
                kids == arrays[nodes[c].kids]
                IsInput(v) == v \in InputNodes
                OffPath(v) == v \notin PathTo(x)
            IN  /\ a \in Ancestors(input.parent, x)
                /\ \A j \in 1..Len(kids) : kids[j] \in InputNodes \cup NewNodes
                /\ Cardinality({j \in 1..Len(kids) : kids[j] \in NewNodes}) <= 1
                /\ SelectSeq(kids, IsInput) = SelectSeq(OrigChildren(a), OffPath)

\* C4 as stated: a single change (a replacement or a deletion) of a
\* descendant at depth d >= 1 allocates exactly d+1 new nodes.
C4_Original ==
    \A p \in active : \A x \in InputNodes :
        (IsDone(p) /\ SingleChange(p, x) /\ DepthOf(x) >= 1) =>
            /\ Cardinality(NewNodes) = DepthOf(x) + 1
            /\ SharesSiblings(x)

\* C4 (amended): structural sharing.  When the single change at depth d is a
\* replacement by a newly built node, exactly d+1 nodes are new: the
\* replacement and one clone of each of the d ancestors.  When it is a
\* deletion there is no replacement: one clone of each ancestor that keeps a
\* child, d less the length of the chain of only-child ancestors above the
\* deleted node, and so at most d.  In both cases every sibling subtree along
\* the path is shared by reference.
C4_StructuralSharing ==
    \A p \in active : \A x \in InputNodes :
        (IsDone(p) /\ SingleChange(p, x)) =>
            /\ plan[p][x] = "replace" =>
                  /\ Cardinality(NewNodes) = DepthOf(x) + 1
                  /\ \A a \in Ancestors(input.parent, x) : Cardinality(ClonedFrom(a)) = 1
                  /\ Cardinality({c \in NewNodes : nodes[c].by = "handler"}) = 1
            /\ plan[p][x] = "dropIf" =>
                  /\ Cardinality(NewNodes) = DepthOf(x) - Cascade(x)
                  /\ Cardinality(NewNodes) <= DepthOf(x)
                  /\ \A c \in NewNodes : nodes[c].by = "clone"
            /\ SharesSiblings(x)

C4_Witness ==
    /\ IsDone(1)
    /\ OrigChildren(1) = <<2, 4>>
    /\ OrigChildren(2) = <<3>>
    /\ SingleChange(1, 3)
    /\ plan[1][3] = "replace"
    /\ Cardinality(NewNodes) = 3
    /\ result[1] \in ClonedFrom(1)
    /\ arrays[nodes[result[1]].kids][2] = 4

\* ----------------------------------------------------------------- C9
\* the nodes visited by rewrite p, in the order of the visits
VisitOrder(p) ==
    LET IsVisit(e) == e.ev = "visit"
        v == SelectSeq(log[p], IsVisit)
    IN  [i \in 1..Len(v) |-> v[i].node]

\* C9: single complete walk.  A visit is never of a node visited before, it
\* follows the document order, and it begins only after the visit of the
\* previous sibling (its whole subtree) has returned; a node is cloned only
\* after the visits of all its children returned.  When every handler calls
\* traverse once on its node, the run ends (it takes a bounded number of
\* steps and cannot stop before visit(root) has returned) and every node of
\* the tree was visited exactly once.
C9_SingleCompleteWalk ==
    \A p \in active :
        /\ Just(p, "visit") =>
              LET c == Last(p).node
                  sibs == OrigChildren(input.parent[c])
              IN  /\ Events(p, "visit", c) = {Len(log[p])}
                  /\ \A i \in 1..(Len(log[p]) - 1) :
                        log[p][i].ev = "visit" => log[p][i].node < c
                  /\ c # 1 =>
                        \A j \in 2..Len(sibs) :
                            sibs[j] = c => Events(p, "vret", sibs[j - 1]) # {}
        /\ Just(p, "tret") /\ Last(p).val \in NewNodes =>
              /\ log[p][Len(log[p]) - 1].ev = "clone"
              /\ \A j \in 1..Len(OrigChildren(Last(p).node)) :
                    Events(p, "vret", OrigChildren(Last(p).node)[j]) # {}
        /\ TraversingPlan(p) =>
              /\ Len(log[p]) <= 7 * nIn + 1
              /\ ~ IsDone(p) => ENABLED Next
              /\ IsDone(p) => VisitOrder(p) = [i \in 1..nIn |-> i]

C9_Witness ==
    /\ IsDone(1)
    /\ TraversingPlan(1)
    /\ nIn = MaxNodes
    /\ OrigChildren(1) = <<2, 4>>
    /\ OrigChildren(2) = <<3>>
    /\ VisitOrder(1) = [i \in 1..nIn |-> i]
    /\ \A n \in InputNodes : Cardinality(Events(1, "visit", n)) = 1

\* ----------------------------------------------------------------- C8
\* The output of a rewrite that runs alone, as a value: traverse and visit as
\* functions of the input tree, the state and the handlers.  <<"in", n>> is
\* the input node n itself, <<"new", n>> the node a handler built in place
\* of n, <<"clone", n, kids>> a clone of n with these children.
RECURSIVE VisitAlone(_, _, _)
TraverseAlone(n, st, pl) ==
    IF ~ OrigSub(n) THEN <<"in", n>>
    ELSE LET kids == OrigChildren(n)
             res == [i \in 1..Len(kids) |-> VisitAlone(kids[i], st, pl)]
             Kept(v) == v # <<"null">>
         IN  IF \A i \in 1..Len(kids) : res[i] = <<"in", kids[i]>>
             THEN <<"in", n>>
             ELSE IF SelectSeq(res, Kept) = <<>>
                  THEN <<"null">>
                  ELSE <<"clone", n, SelectSeq(res, Kept)>>

VisitAlone(n, st, pl) ==
    CASE pl[n] = "replace" -> <<"new", n>>
      [] pl[n] = "dropIf" /\ st = 1 -> <<"null">>
      [] OTHER -> TraverseAlone(n, st, pl)

\* the tree below reference r of the heap, as such a value
RECURSIVE ShapeOf(_)
ShapeOf(r) ==
    IF r \notin 1..Len(nodes) THEN <<"null">>
    ELSE CASE nodes[r].by = "input" -> <<"in", r>>
           [] nodes[r].by = "handler" -> <<"new", nodes[r].meta>>
           [] OTHER ->
                LET kids == IF nodes[r].kids \in 1..Len(arrays)
                            THEN arrays[nodes[r].kids] ELSE <<>>
                IN  <<"clone", nodes[r].meta, [i \in 1..Len(kids) |-> ShapeOf(kids[i])]>>

\* C8: independence of simultaneous rewrites.  With the steps of two
\* rewrites of the same tree interleaved in any way, each rewrite returns
\* the output it returns when it runs alone, the input tree stays as it
\* was, and no two traverse calls ever hold the same accumulator.
C8_Independence ==
    /\ \A p \in active :
          IsDone(p) => ShapeOf(result[p]) = VisitAlone(1, state0[p], plan[p])
    /\ \A n \in InputNodes : nodes[n].kids = n /\ arrays[n] = OrigChildren(n)
    /\ \A c1, c2 \in Cells :
          (c1 # c2 /\ nextChildren[c1] # 0) => nextChildren[c1] # nextChildren[c2]

\* both rewrites ran interleaved (the array rewrite 2 allocated lies between
\* the two arrays rewrite 1 allocated) and returned different outputs
C8_Witness ==
    /\ active = Procs
    /\ IsDone(1) /\ IsDone(2)
    /\ nIn = 2
    /\ plan[1][2] = "replace"
    /\ plan[2][2] = "dropIf" /\ state0[2] = 1
    /\ result[1] \in ClonedFrom(1)
    /\ result[2] = NULL
    /\ nodes[result[1]].kids = nodes[Res(1, 2)].kids + 2

=============================================================================
